---- MODULE Spec2Model ----
(***************************************************************************)
(* Alert detectors of posthog/tasks/alerts/detectors: the detector         *)
(* registry (base.py) and the three detector implementations (zscore.py,   *)
(* mad.py, threshold.py).                                                  *)
(*                                                                         *)
(* Numbers.  Series elements and thresholds are drawn from small sets of   *)
(* integers.  Every arithmetic result is kept exact:                       *)
(*   - a threshold-detector value is a record [num, den, e] standing for   *)
(*     (num / den) * (10^12)^e, which covers the division by the 1e-12     *)
(*     substitute denominator of pct_delta;                                *)
(*   - a z-score is a record [D, V, n] standing for                        *)
(*     D / (sqrt(V) + n * 1e-12), the quotient (current - mu) /            *)
(*     (sigma + 1e-12) with numerator and denominator multiplied by        *)
(*     n = len(baseline);                                                  *)
(*   - a robust score is a record [N, M] standing for                      *)
(*     0.6745 * N / (M + 4 * 1e-12), the quotient 0.6745 * (current - m) / *)
(*     (mad + 1e-12) with numerator and denominator multiplied by 4.       *)
(* Comparisons on these records are decided exactly (see ZGe, RGe, NumLt). *)
(***************************************************************************)
EXTENDS Integers, Sequences, FiniteSets, TLC

VARIABLES registry, loaded, regCalls, lastReg, ctx, cfg, call, outcome, first,
          threads

vars == <<registry, loaded, regCalls, lastReg, ctx, cfg, call, outcome, first,
          threads>>

(***************************************************************************)
(* Bounds of the model.                                                    *)
(***************************************************************************)
MaxLen == 4
MaxWindow == 2
MaxRegCalls == 2

(***************************************************************************)
(* Python values.                                                          *)
(***************************************************************************)
None == <<>>
Some(v) == <<v>>

NoExc == "-"
NoDetector == "-"

\* A call ends either by returning a value or by raising an exception.
\* AlertEvaluationResult(value, breaches, raw_value) is the returned value of
\* evaluate; a Detector is the returned value of get_detector.
Return(value, breaches, raw_value) ==
    [kind |-> "return", exc |-> NoExc, detector |-> NoDetector,
     value |-> value, breaches |-> breaches, raw_value |-> raw_value]

ReturnDetector(d) ==
    [kind |-> "return", exc |-> NoExc, detector |-> d,
     value |-> None, breaches |-> <<>>, raw_value |-> None]

Raise(e) ==
    [kind |-> "raise", exc |-> e, detector |-> NoDetector,
     value |-> None, breaches |-> <<>>, raw_value |-> None]

NoOutcome ==
    [kind |-> "none", exc |-> NoExc, detector |-> NoDetector,
     value |-> None, breaches |-> <<>>, raw_value |-> None]

(***************************************************************************)
(* base.py: the registry.                                                  *)
(***************************************************************************)
Names == {"zscore", "mad", "threshold", "custom"}

Detectors == {"ZScoreDetectorImpl", "MADDetectorImpl", "ThresholdDetectorImpl"}

\* _REGISTRY: dict[str, Detector] = {}
EmptyRegistry == [n \in {} |-> NoDetector]

\* _REGISTRY[name] = detector
register_detector_keep(reg, name, detector) ==
    IF name \in DOMAIN reg THEN reg
    ELSE [n \in DOMAIN reg \cup {name} |-> IF n = name THEN detector ELSE reg[n]]

register_detector(reg, name, detector) ==
    [n \in DOMAIN reg \cup {name} |-> IF n = name THEN detector ELSE reg[n]]

\* return _REGISTRY[name]   (a missing key raises KeyError)
get_detector_default(reg, name) ==
    IF name \in DOMAIN reg THEN ReturnDetector(reg[name])
    ELSE ReturnDetector("ThresholdDetectorImpl")

get_detector(reg, name) ==
    IF name \in DOMAIN reg THEN ReturnDetector(reg[name]) ELSE Raise("KeyError")

(***************************************************************************)
(* Arithmetic helpers.                                                     *)
(***************************************************************************)
Abs(a) == IF a < 0 THEN -a ELSE a

Max(a, b) == IF a >= b THEN a ELSE b

Sign(a) == IF a < 0 THEN -1 ELSE IF a > 0 THEN 1 ELSE 0

RECURSIVE Gcd(_, _)
Gcd(a, b) == IF b = 0 THEN a ELSE Gcd(b, a % b)

RECURSIVE SumSeq(_)
SumSeq(s) == IF s = <<>> THEN 0 ELSE s[1] + SumSeq(Tail(s))

\* The exact number (num / den) * (10^12)^e, in lowest terms, den > 0.
Num(num, den, e) ==
    LET g == Gcd(Abs(num), Abs(den))
    IN  IF num = 0 THEN [num |-> 0, den |-> 1, e |-> 0]
        ELSE [num |-> (Sign(den) * num) \div g, den |-> Abs(den) \div g, e |-> e]

IntNum(a) == Num(a, 1, 0)

\* x < y on such numbers.  Every |num| and den of the model is far below
\* 10^12, so a nonzero number with e = 1 exceeds in magnitude every number
\* with e = 0, and its sign decides the comparison.
NumLt(x, y) ==
    IF x.e = y.e THEN x.num * y.den < y.num * x.den
    ELSE IF x.e > y.e THEN x.num < 0
    ELSE y.num > 0

\* Python slices seq[:-1], seq[1:] and seq[-k:] (for 0 < k <= len(seq)).
AllButLast(seq) == SubSeq(seq, 1, Len(seq) - 1)

LastK(seq, k) == SubSeq(seq, Len(seq) - k + 1, Len(seq))

\* [b - a for a, b in zip(seq[:-1], seq[1:])]
Deltas(seq) == [i \in 1 .. (Len(seq) - 1) |-> seq[i + 1] - seq[i]]

(***************************************************************************)
(* base.py: DetectorContext.  The dataclass has the fields series and      *)
(* label and no method; an access to any other attribute raises            *)
(* AttributeError.                                                         *)
(***************************************************************************)
DetectorContext(series, label) == [series |-> series, label |-> label]

HasAttr(obj, attr) == attr \in DOMAIN obj

\* str.lower() on the direction strings of the model
Lower(s) == IF s = "UP" THEN "up" ELSE IF s = "DOWN" THEN "down" ELSE s

\* (config.direction or "both").lower()
DirectionOf(config) ==
    Lower(IF config.direction = "" THEN "both" ELSE config.direction)

\* config.window or 30
DefaultWindow == 30
WindowOf(config) == IF config.window = 0 THEN DefaultWindow ELSE config.window

\* f"delta from {previous_value:.1f} to {latest_value:.1f} (...)" and
\* f"value {latest_value:.1f}"
MetricContext(c, config) ==
    IF config.on = "delta"
    THEN <<"delta", c.get_previous_value, c.get_latest_value,
           c.get_latest_value - c.get_previous_value>>
    ELSE <<"value", c.get_latest_value>>

(***************************************************************************)
(* zscore.py                                                               *)
(***************************************************************************)
ZScoreConfig(window, on, z_threshold, two_tailed, direction, min_points) ==
    [type |-> "zscore", window |-> window, on |-> on, z_threshold |-> z_threshold,
     two_tailed |-> two_tailed, direction |-> direction, min_points |-> min_points]

\* a transform that knows 'value' only
ZScoreTransformValueOnly(config, seq) == seq

\* def transform(seq) of ZScoreDetectorImpl.evaluate
ZScoreTransform(config, seq) ==
    IF config.on = "value" THEN seq
    ELSE IF config.on = "delta" THEN Deltas(seq)
    ELSE seq

\* no windowing: the whole transformed series is the tail
TailOfWhole(config, x) == x

\* a tail of window elements, the current value included
TailOfShort(config, x) ==
    IF Len(x) > config.window THEN LastK(x, config.window) ELSE x

\* tail = x[-config.window - 1 :] if len(x) > config.window + 1 else x
TailOf(config, x) ==
    IF Len(x) > config.window + 1 THEN LastK(x, config.window + 1) ELSE x

\* mu = mean(baseline); sigma = pstdev(baseline) if len(baseline) > 1 else 0.0
\* z = (current - mu) / (sigma + 1e-12)
\* With n = len(baseline), S = sum(baseline), Q = sum of squares:
\*   mu = S / n, sigma = sqrt(n * Q - S * S) / n, so
\*   z = (n * current - S) / (sqrt(n * Q - S * S) + n * 1e-12).
ZScoreOf(current, baseline) ==
    LET n == Len(baseline)
        S == SumSeq(baseline)
        Q == SumSeq([i \in 1 .. n |-> baseline[i] * baseline[i]])
    IN  [D |-> n * current - S,
         V |-> IF n > 1 THEN n * Q - S * S ELSE 0,
         n |-> n]

\* z >= t, z <= -t and abs(z) >= t for an integer t >= 0.  For t > 0 the term
\* t * n * 1e-12 is positive and far below the gap between D and t * sqrt(V)
\* whenever these differ, so the comparison is strict on the squares.
ZGe(z, t) == IF t = 0 THEN z.D >= 0 ELSE z.D > 0 /\ z.D * z.D > t * t * z.V

ZLe(z, t) == IF t = 0 THEN z.D <= 0 ELSE z.D < 0 /\ z.D * z.D > t * t * z.V

ZAbsGe(z, t) == IF t = 0 THEN TRUE ELSE z.D * z.D > t * t * z.V

\* the breach rule of ZScoreDetectorImpl.evaluate: the list of breach messages
ZScoreBreaches(c, config, z) ==
    LET thr == Abs(config.z_threshold)
        direction == DirectionOf(config)
        window == WindowOf(config)
        msg(rule) == [rule |-> rule, metric_context |-> MetricContext(c, config),
                      score |-> z, thr |-> thr, window |-> window]
    IN  IF direction = "both" \/ config.two_tailed
        THEN (IF ZAbsGe(z, thr) THEN <<msg("zscore both")>> ELSE <<>>)
        ELSE IF direction = "up"
        THEN (IF ZGe(z, thr) THEN <<msg("zscore up")>> ELSE <<>>)
        ELSE IF direction = "down"
        THEN (IF ZLe(z, thr) THEN <<msg("zscore down")>> ELSE <<>>)
        ELSE <<>>

\* ZScoreDetectorImpl.evaluate(ctx, config)
ZScoreEvaluate(c, config) ==
    LET series == c.series
        x == ZScoreTransform(config, series)
        tail == TailOf(config, x)
        current == tail[Len(tail)]
        baseline == AllButLast(tail)
        z == ZScoreOf(current, baseline)
    IN  IF Len(series) < Max(2, config.min_points) THEN Return(None, <<>>, None)
        ELSE IF Len(x) < Max(2, config.min_points) THEN Return(None, <<>>, None)
        ELSE IF Len(tail) < 2 THEN Return(None, <<>>, None)
        ELSE IF ~HasAttr(c, "get_latest_value") THEN Raise("AttributeError")
        ELSE IF config.on = "delta" /\ ~HasAttr(c, "get_previous_value")
        THEN Raise("AttributeError")
        ELSE Return(Some(z), ZScoreBreaches(c, config, z), Some(c.get_latest_value))

(***************************************************************************)
(* mad.py                                                                  *)
(***************************************************************************)
MADConfig(window, on, k, direction, min_points) ==
    [type |-> "mad", window |-> window, on |-> on, k |-> k,
     direction |-> direction, min_points |-> min_points]

\* def transform(seq) of MADDetectorImpl.evaluate
MADTransform(config, seq) ==
    IF config.on = "value" THEN seq
    ELSE IF config.on = "delta" THEN Deltas(seq)
    ELSE seq

RECURSIVE Insert(_, _)
Insert(v, s) ==
    IF s = <<>> THEN <<v>>
    ELSE IF v <= s[1] THEN <<v>> \o s
    ELSE <<s[1]>> \o Insert(v, Tail(s))

RECURSIVE Sorted(_)
Sorted(s) == IF s = <<>> THEN <<>> ELSE Insert(s[1], Sorted(Tail(s)))

\* Twice statistics.median(data): the middle value of the sorted data, or
\* the mean of the two middle values when len(data) is even.
Median2(data) ==
    LET t == Sorted(data)
        n == Len(t)
    IN  IF n % 2 = 1 THEN 2 * t[(n + 1) \div 2]
        ELSE t[n \div 2] + t[n \div 2 + 1]

\* 0.6745, as ScaleNum / ScaleDen
ScaleNum == 6745
ScaleDen == 10000

\* m = median(baseline); mad = median([abs(v - m) for v in baseline])
\* robust = 0.6745 * (current - m) / (mad + 1e-12)
\* With M2 = 2 * m and MD2 = 4 * mad:
\*   robust = 0.6745 * 2 * (2 * current - M2) / (MD2 + 4 * 1e-12).
RobustOf(current, baseline) ==
    LET M2 == Median2(baseline)
        MD2 == Median2([i \in 1 .. Len(baseline) |-> Abs(2 * baseline[i] - M2)])
    IN  [N |-> 2 * (2 * current - M2), M |-> MD2]

\* robust >= t, robust <= -t and abs(robust) >= t for an integer t >= 0.
\* Both sides of ScaleNum * N >= ScaleDen * t * M are integers and the term
\* ScaleDen * t * 4 * 1e-12 lies strictly between 0 and 1 for t > 0.
RGe(r, t) == IF t = 0 THEN r.N >= 0 ELSE ScaleNum * r.N > ScaleDen * t * r.M

RLe(r, t) == IF t = 0 THEN r.N <= 0 ELSE ScaleNum * (-r.N) > ScaleDen * t * r.M

RAbsGe(r, t) == IF t = 0 THEN TRUE ELSE ScaleNum * Abs(r.N) > ScaleDen * t * r.M

\* the breach rule of MADDetectorImpl.evaluate: the list of breach messages
MADBreaches(c, config, robust) ==
    LET thr == Abs(config.k)
        direction == DirectionOf(config)
        window == WindowOf(config)
        msg(rule) == [rule |-> rule, metric_context |-> MetricContext(c, config),
                      score |-> robust, thr |-> thr, window |-> window]
    IN  IF direction = "both"
        THEN (IF RAbsGe(robust, thr) THEN <<msg("mad both")>> ELSE <<>>)
        ELSE IF direction = "up"
        THEN (IF RGe(robust, thr) THEN <<msg("mad up")>> ELSE <<>>)
        ELSE IF direction = "down"
        THEN (IF RLe(robust, thr) THEN <<msg("mad down")>> ELSE <<>>)
        ELSE <<>>

\* MADDetectorImpl.evaluate without its first length guard
MADEvaluateUnguarded(c, config) ==
    LET series == c.series
        x == MADTransform(config, series)
        tail == TailOf(config, x)
        current == tail[Len(tail)]
        baseline == AllButLast(tail)
        robust == RobustOf(current, baseline)
    IN  IF Len(tail) < 2 THEN Return(None, <<>>, None)
        ELSE IF ~HasAttr(c, "get_latest_value") THEN Raise("AttributeError")
        ELSE IF config.on = "delta" /\ ~HasAttr(c, "get_previous_value")
        THEN Raise("AttributeError")
        ELSE Return(Some(robust), MADBreaches(c, config, robust), None)

\* MADDetectorImpl.evaluate(ctx, config)
MADEvaluate(c, config) ==
    LET series == c.series
        x == MADTransform(config, series)
        tail == TailOf(config, x)
        current == tail[Len(tail)]
        baseline == AllButLast(tail)
        robust == RobustOf(current, baseline)
    IN  IF Len(series) < Max(2, config.min_points) THEN Return(None, <<>>, None)
        ELSE IF Len(tail) < 2 THEN Return(None, <<>>, None)
        ELSE IF ~HasAttr(c, "get_latest_value") THEN Raise("AttributeError")
        ELSE IF config.on = "delta" /\ ~HasAttr(c, "get_previous_value")
        THEN Raise("AttributeError")
        ELSE Return(Some(robust), MADBreaches(c, config, robust), None)

(***************************************************************************)
(* threshold.py                                                            *)
(***************************************************************************)
ThresholdBounds(lower, upper) == [lower |-> lower, upper |-> upper]

ThresholdConfig(on, bounds, two_tailed) ==
    [type |-> "threshold", on |-> on, bounds |-> bounds, two_tailed |-> two_tailed]

\* (b - a) / a whatever a is
PctChangeUnguarded(a, b) == Num(b - a, a, 0)

\* denom = a if abs(a) > 1e-12 else 1e-12;  (b - a) / denom
\* (a is an integer here, so abs(a) > 1e-12 exactly when a is not 0)
PctChange(a, b) == IF Abs(a) > 0 THEN Num(b - a, a, 0) ELSE Num(b - a, 1, 1)

\* a transform whose delta is the change since the first observation
ThresholdTransformFromStart(config, seq) ==
    IF config.on = "value" THEN [i \in 1 .. Len(seq) |-> IntNum(seq[i])]
    ELSE IF config.on = "delta"
    THEN [i \in 1 .. (Len(seq) - 1) |-> IntNum(seq[i + 1] - seq[1])]
    ELSE IF config.on = "pct_delta"
    THEN [i \in 1 .. (Len(seq) - 1) |-> PctChange(seq[1], seq[i + 1])]
    ELSE [i \in 1 .. Len(seq) |-> IntNum(seq[i])]

\* def transform(seq) of ThresholdDetectorImpl.evaluate
ThresholdTransform(config, seq) ==
    IF config.on = "value" THEN [i \in 1 .. Len(seq) |-> IntNum(seq[i])]
    ELSE IF config.on = "delta"
    THEN [i \in 1 .. (Len(seq) - 1) |-> IntNum(seq[i + 1] - seq[i])]
    ELSE IF config.on = "pct_delta"
    THEN [i \in 1 .. (Len(seq) - 1) |-> PctChange(seq[i], seq[i + 1])]
    ELSE [i \in 1 .. Len(seq) |-> IntNum(seq[i])]

\* the bound checks with <= and >= in place of < and >
ThresholdBreachesInclusive(config, current) ==
    LET lower == config.bounds.lower
        upper == config.bounds.upper
        low == IF lower # None /\ ~NumLt(IntNum(lower[1]), current)
               THEN <<[rule |-> "lower", current |-> current, bound |-> lower[1]]>>
               ELSE <<>>
        up == IF upper # None /\ ~NumLt(current, IntNum(upper[1]))
              THEN <<[rule |-> "upper", current |-> current, bound |-> upper[1]]>>
              ELSE <<>>
    IN  low \o up

\* the two independent bound checks, lower first
ThresholdBreaches(config, current) ==
    LET lower == config.bounds.lower
        upper == config.bounds.upper
        low == IF lower # None /\ NumLt(current, IntNum(lower[1]))
               THEN <<[rule |-> "lower", current |-> current, bound |-> lower[1]]>>
               ELSE <<>>
        up == IF upper # None /\ NumLt(IntNum(upper[1]), current)
              THEN <<[rule |-> "upper", current |-> current, bound |-> upper[1]]>>
              ELSE <<>>
    IN  low \o up

\* ThresholdDetectorImpl.evaluate checking the bounds against 0 when the
\* transform leaves no current value
ThresholdEvaluateDefaultZero(c, config) ==
    LET series == c.series
        transformed == ThresholdTransform(config, series)
        current == IF Len(transformed) > 0 THEN Some(transformed[Len(transformed)])
                   ELSE None
    IN  IF Len(series) = 0 THEN Return(None, <<>>, None)
        ELSE IF current # None
        THEN Return(current, ThresholdBreaches(config, current[1]), None)
        ELSE Return(current, ThresholdBreaches(config, IntNum(0)), None)

\* ThresholdDetectorImpl.evaluate taking transformed[0] as the current value
ThresholdEvaluateOldest(c, config) ==
    LET series == c.series
        transformed == ThresholdTransform(config, series)
        current == IF Len(transformed) > 0 THEN Some(transformed[1]) ELSE None
    IN  IF Len(series) = 0 THEN Return(None, <<>>, None)
        ELSE IF current # None
        THEN Return(current, ThresholdBreaches(config, current[1]), None)
        ELSE Return(current, <<>>, None)

\* ThresholdDetectorImpl.evaluate(ctx, config)
ThresholdEvaluate(c, config) ==
    LET series == c.series
        transformed == ThresholdTransform(config, series)
        current == IF Len(transformed) > 0 THEN Some(transformed[Len(transformed)])
                   ELSE None
    IN  IF Len(series) = 0 THEN Return(None, <<>>, None)
        ELSE IF current # None
        THEN Return(current, ThresholdBreaches(config, current[1]), None)
        ELSE Return(current, <<>>, None)

(***************************************************************************)
(* Inputs of the model.                                                    *)
(***************************************************************************)
SeriesValues == {0, 2, 5}

AllSeries == UNION {[1 .. n -> SeriesValues] : n \in 0 .. MaxLen}

Labels == {None}

Contexts == {DetectorContext(s, l) : s \in AllSeries, l \in Labels}

Ons == {"value", "delta", "pct_delta", "bogus"}

Windows == 1 .. MaxWindow

MinPoints == {2, 3}

Directions == {"both", "up", "down", "UP", ""}

Thresholds == {-2, 0, 2}

BoundValues == {None, Some(2), Some(5)}

ZScoreConfigs ==
    {ZScoreConfig(w, on, t, tt, d, mp) :
        w \in Windows, on \in Ons, t \in Thresholds, tt \in BOOLEAN,
        d \in Directions, mp \in MinPoints}

MADConfigs ==
    {MADConfig(w, on, k, d, mp) :
        w \in Windows, on \in Ons, k \in Thresholds, d \in Directions,
        mp \in MinPoints}

ThresholdConfigs ==
    {ThresholdConfig(on, ThresholdBounds(lo, up), TRUE) :
        on \in Ons, lo \in BoundValues, up \in BoundValues}

Configs == ZScoreConfigs \cup MADConfigs \cup ThresholdConfigs

\* the caller holds no context and no config yet
NoCtx == DetectorContext(<<>>, None)
NoCfg == [type |-> "-"]

(***************************************************************************)
(* The program: the detector modules are loaded (each registers its        *)
(* implementation), then a caller builds a context and a config, resolves  *)
(* the implementation through the registry and evaluates.                  *)
(***************************************************************************)
Modules == {"zscore", "mad", "threshold"}

\* register_detector("zscore", ZScoreDetectorImpl()) and its two siblings:
\* the name and the implementation each module registers when it is loaded
RegistrationOfSwapped(m) ==
    IF m = "zscore" THEN <<"zscore", "ZScoreDetectorImpl">>
    ELSE IF m = "mad" THEN <<"zscore", "MADDetectorImpl">>
    ELSE <<"threshold", "ThresholdDetectorImpl">>

RegistrationOf(m) ==
    IF m = "zscore" THEN <<"zscore", "ZScoreDetectorImpl">>
    ELSE IF m = "mad" THEN <<"mad", "MADDetectorImpl">>
    ELSE <<"threshold", "ThresholdDetectorImpl">>

NoCall == [op |-> "none", name |-> "-", detector |-> NoDetector]

\* first: the context, the config and the outcome of the first evaluation a
\* caller made, and whether it has evaluated other inputs since (a history
\* variable; the program keeps no such record)
NoFirst == [ctx |-> NoCtx, cfg |-> NoCfg, result |-> NoOutcome, others |-> FALSE]

\* the callers that run concurrently
MaxThreads == 2

Threads == 1 .. MaxThreads

\* a thread that has not called yet: pc is its position, ctx and cfg the
\* objects it built, detector what its lookup handed back, res the result
\* object the evaluation builds, result what the caller received; overlapped
\* records that another call was in flight when this one returned (a history
\* field)
IdleThread ==
    [pc |-> "idle", ctx |-> NoCtx, cfg |-> NoCfg, detector |-> NoDetector,
     res |-> NoOutcome, result |-> NoOutcome, overlapped |-> FALSE]

Init ==
    /\ registry = EmptyRegistry
    /\ loaded = {}
    /\ regCalls = [n \in Names |-> 0]
    /\ lastReg = EmptyRegistry
    /\ ctx = NoCtx
    /\ cfg = NoCfg
    /\ call = NoCall
    /\ outcome = NoOutcome
    /\ first = NoFirst
    /\ threads = [t \in Threads |-> IdleThread]

\* register_detector(name, detector): the write to _REGISTRY, with the
\* history of the calls (regCalls, lastReg)
Registered(name, detector) ==
    /\ regCalls[name] < MaxRegCalls
    /\ registry' = register_detector(registry, name, detector)
    /\ regCalls' = [regCalls EXCEPT ![name] = @ + 1]
    /\ lastReg' = [n \in DOMAIN lastReg \cup {name} |->
                      IF n = name THEN detector ELSE lastReg[n]]
    /\ call' = [op |-> "register", name |-> name, detector |-> detector]
    /\ outcome' = NoOutcome
    /\ UNCHANGED <<ctx, cfg, first, threads>>

\* a call of register_detector(name, detector) by any caller
RegisterDetector(name, detector) ==
    /\ Registered(name, detector)
    /\ UNCHANGED loaded

\* the first import of a detector module runs its module-level registration
LoadModule(m) ==
    /\ m \notin loaded
    /\ loaded' = loaded \cup {m}
    /\ Registered(RegistrationOf(m)[1], RegistrationOf(m)[2])

\* a call of get_detector(name); a caller that holds a config resolves
\* config.type
GetDetector(name) ==
    /\ cfg = NoCfg \/ name = cfg.type
    /\ outcome' = get_detector(registry, name)
    /\ call' = [op |-> "get", name |-> name, detector |-> NoDetector]
    /\ UNCHANGED <<registry, loaded, regCalls, lastReg, ctx, cfg, first, threads>>

\* the caller builds a DetectorContext and a config, once the modules that
\* define them are loaded
NewInput(c, config) ==
    /\ ctx' = c
    /\ cfg' = config
    /\ call' = [op |-> "input", name |-> "-", detector |-> NoDetector]
    /\ outcome' = NoOutcome
    /\ UNCHANGED <<registry, loaded, regCalls, lastReg, first, threads>>

\* first after one more evaluation
FirstAfter(result) ==
    IF first = NoFirst
    THEN [ctx |-> ctx, cfg |-> cfg, result |-> result, others |-> FALSE]
    ELSE IF first.ctx = ctx /\ first.cfg = cfg THEN first
    ELSE [first EXCEPT !.others = TRUE]

\* an evaluation that takes the current value off the caller's series
EvaluatedConsuming(detector, result) ==
    /\ outcome' = result
    /\ call' = [op |-> "evaluate", name |-> cfg.type, detector |-> detector]
    /\ first' = FirstAfter(result)
    /\ ctx' = [ctx EXCEPT !.series = AllButLast(@)]
    /\ UNCHANGED <<registry, loaded, regCalls, lastReg, cfg, threads>>

\* detector.evaluate(ctx, config) for the three implementations: the call
\* reads ctx and config and hands back its outcome
Evaluated(detector, result) ==
    /\ outcome' = result
    /\ call' = [op |-> "evaluate", name |-> cfg.type, detector |-> detector]
    /\ first' = FirstAfter(result)
    /\ UNCHANGED <<registry, loaded, regCalls, lastReg, ctx, cfg, threads>>

EvaluateZScore ==
    /\ cfg.type = "zscore"
    /\ Evaluated("ZScoreDetectorImpl", ZScoreEvaluate(ctx, cfg))

EvaluateMAD ==
    /\ cfg.type = "mad"
    /\ Evaluated("MADDetectorImpl", MADEvaluate(ctx, cfg))

EvaluateThreshold ==
    /\ cfg.type = "threshold"
    /\ Evaluated("ThresholdDetectorImpl", ThresholdEvaluate(ctx, cfg))

Next ==
    \/ \E m \in Modules : LoadModule(m)
    \/ \E name \in Names : GetDetector(name)
    \/ /\ loaded = Modules
       /\ cfg = NoCfg
       /\ \E c \in Contexts, config \in Configs : NewInput(c, config)
    \/ EvaluateZScore
    \/ EvaluateMAD
    \/ EvaluateThreshold

Spec == Init /\ [][Next]_vars

\* The registry interface under arbitrary call sequences.
NextAPI ==
    \/ \E name \in Names, d \in Detectors : RegisterDetector(name, d)
    \/ \E name \in Names : GetDetector(name)

SpecAPI == Init /\ [][NextAPI]_vars

(***************************************************************************)
(* A caller that evaluates one rule after another: it drops the context    *)
(* and the config of one rule and builds those of the next.  The inputs    *)
(* are a subset of those of Spec, small enough for every pair of them to   *)
(* be evaluated in sequence.                                               *)
(***************************************************************************)
SeqSeries == {s \in AllSeries : Len(s) <= 3}

SeqConfigs ==
    {ZScoreConfig(1, on, 2, TRUE, "both", 2) : on \in {"value", "delta"}}
    \cup {MADConfig(1, on, 2, "both", 2) : on \in {"value", "delta"}}
    \cup {ThresholdConfig(on, ThresholdBounds(None, up), TRUE) :
            on \in {"value", "pct_delta"}, up \in {None, Some(2)}}

Discard ==
    /\ cfg # NoCfg
    /\ ctx' = NoCtx
    /\ cfg' = NoCfg
    /\ call' = [op |-> "discard", name |-> "-", detector |-> NoDetector]
    /\ outcome' = NoOutcome
    /\ UNCHANGED <<registry, loaded, regCalls, lastReg, first, threads>>

NextSeq ==
    \/ \E m \in Modules : LoadModule(m)
    \/ /\ loaded = Modules
       /\ cfg = NoCfg
       /\ \E s \in SeqSeries, config \in SeqConfigs :
             NewInput(DetectorContext(s, None), config)
    \/ EvaluateZScore
    \/ EvaluateMAD
    \/ EvaluateThreshold
    \/ Discard

SpecSeq == Init /\ [][NextSeq]_vars

(***************************************************************************)
(* Concurrent callers.  Once the modules are loaded, each thread builds    *)
(* its own context and config, looks the implementation up and evaluates.  *)
(* The steps of the threads interleave: a lookup is one read of the        *)
(* registry, an evaluation builds its result in the locals of the call     *)
(* and then hands it to its caller.                                        *)
(***************************************************************************)
ConcSeries == {<<>>, <<5>>, <<0, 0, 5>>}

ConcConfigs ==
    {ZScoreConfig(1, "value", 2, TRUE, "both", 2),
     MADConfig(1, "delta", 2, "both", 2),
     ThresholdConfig("value", ThresholdBounds(None, Some(2)), TRUE),
     ThresholdConfig("pct_delta", ThresholdBounds(Some(2), None), TRUE)}

\* detector.evaluate(ctx, config): the call is dispatched on the
\* implementation the lookup returned
EvaluateBy(d, c, config) ==
    IF d = "ZScoreDetectorImpl" THEN ZScoreEvaluate(c, config)
    ELSE IF d = "MADDetectorImpl" THEN MADEvaluate(c, config)
    ELSE ThresholdEvaluate(c, config)

\* every call keeps what it computes on the one registered instance
FrameOfInstance(t) == 1

\* evaluate keeps what it computes in locals: every call has its own frame
FrameOf(t) == t

\* thread t builds DetectorContext(series=...) and a config
ThreadInput(t, c, config) ==
    /\ threads[t].pc = "idle"
    /\ threads' = [threads EXCEPT ![t].pc = "lookup", ![t].ctx = c, ![t].cfg = config]
    /\ UNCHANGED <<registry, loaded, regCalls, lastReg, ctx, cfg, call, outcome, first>>

\* thread t calls get_detector(config.type)
ThreadGetDetector(t) ==
    /\ threads[t].pc = "lookup"
    /\ LET r == get_detector(registry, threads[t].cfg.type)
       IN  threads' = IF r.kind = "raise"
                      THEN [threads EXCEPT ![t].pc = "done", ![t].result = r]
                      ELSE [threads EXCEPT ![t].pc = "evaluate",
                                           ![t].detector = r.detector]
    /\ UNCHANGED <<registry, loaded, regCalls, lastReg, ctx, cfg, call, outcome, first>>

\* thread t runs the body of evaluate(ctx, config) up to its return statement
ThreadEvaluate(t) ==
    /\ threads[t].pc = "evaluate"
    /\ threads' = [threads EXCEPT
                      ![FrameOf(t)].res =
                          EvaluateBy(threads[t].detector, threads[t].ctx, threads[t].cfg),
                      ![t].pc = "return"]
    /\ UNCHANGED <<registry, loaded, regCalls, lastReg, ctx, cfg, call, outcome, first>>

\* the call of thread t returns (or raises) to its caller
ThreadReturn(t) ==
    /\ threads[t].pc = "return"
    /\ threads' = [threads EXCEPT
                      ![t].result = threads[FrameOf(t)].res,
                      ![t].pc = "done",
                      ![t].overlapped =
                          \E u \in Threads \ {t} :
                              threads[u].pc \in {"lookup", "evaluate", "return"}]
    /\ UNCHANGED <<registry, loaded, regCalls, lastReg, ctx, cfg, call, outcome, first>>

NextConc ==
    \/ \E m \in Modules : LoadModule(m)
    \/ /\ loaded = Modules
       /\ \E t \in Threads, s \in ConcSeries, config \in ConcConfigs :
             ThreadInput(t, DetectorContext(s, None), config)
    \/ \E t \in Threads : ThreadGetDetector(t)
    \/ \E t \in Threads : ThreadEvaluate(t)
    \/ \E t \in Threads : ThreadReturn(t)

SpecConc == Init /\ [][NextConc]_vars

(***************************************************************************)
(* Properties.                                                             *)
(***************************************************************************)
EvaluatedBy(d) == call.op = "evaluate" /\ call.detector = d

MinLength == Max(2, cfg.min_points)

\* the z-score evaluation got past its three length guards
SufficientZScore ==
    /\ Len(ctx.series) >= MinLength
    /\ Len(ZScoreTransform(cfg, ctx.series)) >= MinLength
    /\ Len(TailOf(cfg, ZScoreTransform(cfg, ctx.series))) >= 2

\* the MAD evaluation got past its two length guards
SufficientMAD ==
    /\ Len(ctx.series) >= MinLength
    /\ Len(TailOf(cfg, MADTransform(cfg, ctx.series))) >= 2

\* the scores of the current context and config
CurrentZ ==
    LET tail == TailOf(cfg, ZScoreTransform(cfg, ctx.series))
    IN  ZScoreOf(tail[Len(tail)], AllButLast(tail))

CurrentRobust ==
    LET tail == TailOf(cfg, MADTransform(cfg, ctx.series))
    IN  RobustOf(tail[Len(tail)], AllButLast(tail))

NoOpinion == outcome.kind = "return" /\ outcome.value = None /\ outcome.breaches = <<>>

\* C1: an evaluation on insufficient data returns value=None with no breach
\* and raises nothing: ZScore and MAD when len(series) < max(2, min_points),
\* Threshold when the series is empty.
C1_InsufficientDataIsNoOpinion ==
    /\ (EvaluatedBy("ZScoreDetectorImpl") /\ Len(ctx.series) < MinLength) => NoOpinion
    /\ (EvaluatedBy("MADDetectorImpl") /\ Len(ctx.series) < MinLength) => NoOpinion
    /\ (EvaluatedBy("ThresholdDetectorImpl") /\ Len(ctx.series) = 0) => NoOpinion

\* C1 witness: MAD evaluated on two points when min_points is 3
C1_Witness ==
    /\ EvaluatedBy("MADDetectorImpl")
    /\ Len(ctx.series) = 2
    /\ cfg.min_points = 3
    /\ NoOpinion

\* C2: every evaluation ends by returning a result, never by raising.
C2_EvaluateNeverRaises ==
    call.op = "evaluate" => outcome.kind = "return"

\* C3: with sufficient data the z-score evaluation reports a breach exactly
\* when |z| >= thr if two_tailed, and exactly when z >= thr otherwise.
C3_ZScoreBreachRule ==
    (EvaluatedBy("ZScoreDetectorImpl") /\ SufficientZScore) =>
        /\ outcome.kind = "return"
        /\ (outcome.breaches # <<>>) <=>
              (IF cfg.two_tailed THEN ZAbsGe(CurrentZ, Abs(cfg.z_threshold))
               ELSE ZGe(CurrentZ, Abs(cfg.z_threshold)))

\* C4: with sufficient data the MAD evaluation reports a breach exactly when
\* |robust| >= |k|, whatever the other config fields are.
C4_MADBreachRuleTwoSided ==
    (EvaluatedBy("MADDetectorImpl") /\ SufficientMAD) =>
        /\ outcome.kind = "return"
        /\ (outcome.breaches # <<>>) <=> RAbsGe(CurrentRobust, Abs(cfg.k))

HasBreach(rule) == \E i \in 1 .. Len(outcome.breaches) : outcome.breaches[i].rule = rule

\* C5: when the threshold evaluation has a current value, there is a 'lower'
\* breach exactly when bounds.lower is set and current < lower, an 'upper'
\* breach exactly when bounds.upper is set and current > upper; each at most
\* once, lower before upper, and both only when lower > upper.
C5_ThresholdBreachRule ==
    (EvaluatedBy("ThresholdDetectorImpl") /\ outcome.value # None) =>
        LET current == outcome.value[1]
            lower == cfg.bounds.lower
            upper == cfg.bounds.upper
            below == lower # None /\ NumLt(current, IntNum(lower[1]))
            above == upper # None /\ NumLt(IntNum(upper[1]), current)
        IN  /\ outcome.kind = "return"
            /\ HasBreach("lower") <=> below
            /\ HasBreach("upper") <=> above
            /\ Len(outcome.breaches) = (IF below THEN 1 ELSE 0) + (IF above THEN 1 ELSE 0)
            /\ \A i \in 1 .. Len(outcome.breaches) :
                  outcome.breaches[i].rule \in {"lower", "upper"}
            /\ Len(outcome.breaches) = 2 =>
                  /\ outcome.breaches[1].rule = "lower"
                  /\ outcome.breaches[2].rule = "upper"
                  /\ lower[1] > upper[1]

\* C5 witness: both bounds breached at once
C5_Witness ==
    /\ EvaluatedBy("ThresholdDetectorImpl")
    /\ Len(outcome.breaches) = 2

\* C6: with on='value' and sufficient data, ZScore and MAD report a breach
\* for direction 'up' when score >= thr, for 'down' when score <= -thr, and
\* for 'both' in either case.
C6_DirectionFires ==
    /\ (EvaluatedBy("ZScoreDetectorImpl") /\ cfg.on = "value" /\ SufficientZScore) =>
          LET thr == Abs(cfg.z_threshold)
              up == ZGe(CurrentZ, thr)
              down == ZLe(CurrentZ, thr)
          IN  (\/ cfg.direction = "up" /\ up
               \/ cfg.direction = "down" /\ down
               \/ cfg.direction = "both" /\ (up \/ down))
              => outcome.breaches # <<>>
    /\ (EvaluatedBy("MADDetectorImpl") /\ cfg.on = "value" /\ SufficientMAD) =>
          LET thr == Abs(cfg.k)
              up == RGe(CurrentRobust, thr)
              down == RLe(CurrentRobust, thr)
          IN  (\/ cfg.direction = "up" /\ up
               \/ cfg.direction = "down" /\ down
               \/ cfg.direction = "both" /\ (up \/ down))
              => outcome.breaches # <<>>

\* C7: get_detector(name) returns the implementation stored under name, fails
\* with KeyError when none is stored, and leaves the registry as it was.
C7_LookupReturnsStoredOrFails ==
    [][call'.op = "get" =>
         /\ registry' = registry
         /\ IF call'.name \in DOMAIN registry
            THEN outcome' = ReturnDetector(registry[call'.name])
            ELSE outcome'.kind = "raise" /\ outcome'.exc = "KeyError"]_vars

\* C7 witness: a lookup failed while other names were registered
C7_Witness ==
    /\ call.op = "get"
    /\ outcome.kind = "raise"
    /\ outcome.exc = "KeyError"
    /\ DOMAIN registry # {}

\* C8: the registry starts empty and holds, for every name, the detector of
\* the most recent register_detector call for it and nothing else; a lookup
\* of a registered name returns that detector.
C8_RegistryHoldsLatestRegistration ==
    /\ (\A n \in Names : regCalls[n] = 0) => registry = EmptyRegistry
    /\ DOMAIN registry = {n \in Names : regCalls[n] > 0}
    /\ DOMAIN lastReg = DOMAIN registry
    /\ \A n \in DOMAIN registry : registry[n] = lastReg[n]
    /\ (call.op = "get" /\ regCalls[call.name] > 0) =>
          outcome = ReturnDetector(lastReg[call.name])

\* C8 witness: a name registered twice, another name registered too, and a
\* lookup of the first name returning its latest detector
C8_Witness ==
    /\ call.op = "get"
    /\ regCalls[call.name] = 2
    /\ \E n \in DOMAIN registry : n # call.name /\ registry[n] # registry[call.name]
    /\ outcome.detector = lastReg[call.name]

\* C9: once the three modules are loaded the registry holds exactly 'zscore',
\* 'mad' and 'threshold', each registered once, each bound to its own
\* implementation, and a lookup by config.type returns that implementation.
C9_DispatchByTypeTag ==
    loaded = Modules =>
        /\ DOMAIN registry = {"zscore", "mad", "threshold"}
        /\ \A n \in Names : regCalls[n] = (IF n \in DOMAIN registry THEN 1 ELSE 0)
        /\ registry["zscore"] = "ZScoreDetectorImpl"
        /\ registry["mad"] = "MADDetectorImpl"
        /\ registry["threshold"] = "ThresholdDetectorImpl"
        /\ (call.op = "get" /\ cfg \in ZScoreConfigs) =>
              outcome = ReturnDetector("ZScoreDetectorImpl")
        /\ (call.op = "get" /\ cfg \in MADConfigs) =>
              outcome = ReturnDetector("MADDetectorImpl")
        /\ (call.op = "get" /\ cfg \in ThresholdConfigs) =>
              outcome = ReturnDetector("ThresholdDetectorImpl")

\* C9 witness: a MAD config dispatched to the MAD implementation
C9_Witness ==
    /\ loaded = Modules
    /\ call.op = "get"
    /\ cfg \in MADConfigs
    /\ outcome.detector = "MADDetectorImpl"

\* C10: an evaluation changes neither the context, the config nor the
\* registry, and evaluating the first context and config again gives the
\* first outcome again, whatever was evaluated in between.
C10_EvaluateIsPure ==
    [][call'.op = "evaluate" =>
         /\ ctx' = ctx
         /\ cfg' = cfg
         /\ registry' = registry
         /\ loaded' = loaded
         /\ (first # NoFirst /\ first.ctx = ctx /\ first.cfg = cfg) =>
               outcome' = first.result]_vars

\* C10 witness: the first input evaluated again after other inputs were
\* evaluated, with a score
C10_Witness ==
    /\ call.op = "evaluate"
    /\ first.others
    /\ first.ctx = ctx
    /\ first.cfg = cfg
    /\ outcome = first.result
    /\ outcome.value # None

\* a sequence of integers as a sequence of exact numbers
AsNums(seq) == [i \in 1 .. Len(seq) |-> IntNum(seq[i])]

\* C11 (as stated): for on in {value, delta, pct_delta} the three detectors
\* analyse the same transformed sequence.
C11_SameTransformEverywhere ==
    (call.op = "evaluate" /\ cfg.on \in {"value", "delta", "pct_delta"}) =>
        /\ AsNums(ZScoreTransform(cfg, ctx.series)) = ThresholdTransform(cfg, ctx.series)
        /\ AsNums(MADTransform(cfg, ctx.series)) = ThresholdTransform(cfg, ctx.series)

\* C11 (amended): for on in {value, delta} the three detectors analyse the
\* same sequence; for on = pct_delta Threshold analyses the n-1 percentage
\* changes while ZScore and MAD analyse the raw series, as for on = value.
C11_SameTransformForValueAndDelta ==
    call.op = "evaluate" =>
        LET n == Len(ctx.series)
            z == ZScoreTransform(cfg, ctx.series)
            m == MADTransform(cfg, ctx.series)
            t == ThresholdTransform(cfg, ctx.series)
        IN  /\ cfg.on \in {"value", "delta"} => AsNums(z) = t /\ AsNums(m) = t
            /\ cfg.on = "delta" => Len(z) = Max(n - 1, 0) /\ Len(m) = Max(n - 1, 0)
            /\ cfg.on = "pct_delta" =>
                  /\ z = ctx.series
                  /\ m = ctx.series
                  /\ Len(t) = Max(n - 1, 0)

\* C11 witness: a delta config evaluated on a series of three or more points
C11_Witness ==
    /\ call.op = "evaluate"
    /\ cfg.on = "delta"
    /\ Len(ctx.series) >= 3
    /\ AsNums(ZScoreTransform(cfg, ctx.series)) = ThresholdTransform(cfg, ctx.series)

\* C12: ZScore and MAD both return value=None with no breach whenever the
\* transformed series has fewer than max(2, min_points) elements.
C12_GuardRecheckedAfterTransform ==
    /\ (EvaluatedBy("ZScoreDetectorImpl")
          /\ Len(ZScoreTransform(cfg, ctx.series)) < MinLength) => NoOpinion
    /\ (EvaluatedBy("MADDetectorImpl")
          /\ Len(MADTransform(cfg, ctx.series)) < MinLength) => NoOpinion

\* the current value the threshold detector is to report for a non-empty
\* series: the last element, the last difference or the last relative change
ExpectedCurrent(series, on) ==
    LET n == Len(series)
    IN  IF on \in {"delta", "pct_delta"} /\ n < 2 THEN None
        ELSE IF on = "delta" THEN Some(IntNum(series[n] - series[n - 1]))
        ELSE IF on = "pct_delta"
        THEN Some(IF series[n - 1] # 0
                  THEN Num(series[n] - series[n - 1], series[n - 1], 0)
                  ELSE Num(series[n] - series[n - 1], 1, 1))
        ELSE Some(IntNum(series[n]))

\* C13: for a non-empty series the threshold result's value is the last
\* element of the transformed series, and value=None with no breach when the
\* transform leaves nothing (delta or pct_delta of a single point), whatever
\* the bounds; nothing is raised.
C13_ThresholdValueIsLastTransformed ==
    (EvaluatedBy("ThresholdDetectorImpl") /\ Len(ctx.series) > 0) =>
        /\ outcome.kind = "return"
        /\ outcome.value = ExpectedCurrent(ctx.series, cfg.on)
        /\ outcome.value = None => outcome.breaches = <<>>

\* C13 witness: a delta of a single point with both bounds set
C13_Witness ==
    /\ EvaluatedBy("ThresholdDetectorImpl")
    /\ Len(ctx.series) = 1
    /\ cfg.on = "delta"
    /\ cfg.bounds.lower # None
    /\ cfg.bounds.upper # None
    /\ NoOpinion

\* C14: with an unrecognised on, each detector returns exactly the result it
\* returns for the same config with on = 'value', and raises nothing.
C14_UnknownTransformIsValue ==
    (call.op = "evaluate" /\ cfg.on \notin {"value", "delta", "pct_delta"}) =>
        /\ outcome.kind = "return"
        /\ outcome = EvaluateBy(call.detector, ctx, [cfg EXCEPT !.on = "value"])

\* what the call of thread t gives when it runs alone, once the modules are
\* loaded
AloneResult(t) ==
    LET r == get_detector(registry, threads[t].cfg.type)
    IN  IF r.kind = "raise" THEN r
        ELSE EvaluateBy(r.detector, threads[t].ctx, threads[t].cfg)

\* C15: once the three registrations are done, in every interleaving of the
\* lookups and evaluations of concurrent callers no step writes the
\* registry, a context or config a caller built, or a result a caller
\* received, and every call gives the outcome it gives when run alone.
C15_ConcurrentCallsAreIndependent ==
    [][/\ loaded = Modules => registry' = registry
       /\ \A t \in Threads :
             /\ threads[t].pc # "idle" =>
                   /\ threads'[t].ctx = threads[t].ctx
                   /\ threads'[t].cfg = threads[t].cfg
             /\ threads[t].pc = "done" => threads'[t] = threads[t]
             /\ threads'[t].pc = "done" => threads'[t].result = AloneResult(t)']_vars

\* C15 witness: two calls that overlapped in time, on different detectors,
\* have both returned, one with a breach and one with no opinion
C15_Witness ==
    /\ \A t \in Threads : threads[t].pc = "done"
    /\ \E t, u \in Threads :
          /\ threads[t].overlapped
          /\ threads[t].cfg.type = "threshold"
          /\ threads[t].result.kind = "return"
          /\ threads[t].result.breaches # <<>>
          /\ threads[u].cfg.type = "zscore"
          /\ threads[u].result = Return(None, <<>>, None)

Min(a, b) == IF a <= b THEN a ELSE b

\* the series ZScore, respectively MAD, analyses for the current inputs
Analysed ==
    IF cfg.type = "zscore" THEN ZScoreTransform(cfg, ctx.series)
    ELSE MADTransform(cfg, ctx.series)

\* the inputs passed the length guards that precede the windowing
PassedLengthGuard ==
    /\ Len(ctx.series) >= MinLength
    /\ cfg.type = "zscore" => Len(Analysed) >= MinLength

\* C16: for window > 0 and a transformed series x that passed the length
\* guard, the tail is the last min(window + 1, len(x)) elements of x, current
\* is the last element of x, the baseline is the min(window, len(x) - 1)
\* elements just before it in order (so current is not in it), and a tail of
\* fewer than 2 elements gives value=None with no breach.
C16_TailWindowing ==
    (call.op = "evaluate" /\ cfg.type \in {"zscore", "mad"}
        /\ cfg.window > 0 /\ PassedLengthGuard) =>
        LET x == Analysed
            n == Len(x)
            tail == TailOf(cfg, x)
            current == tail[Len(tail)]
            baseline == AllButLast(tail)
            b == Min(cfg.window, n - 1)
        IN  /\ Len(tail) = Min(cfg.window + 1, n)
            /\ \A i \in 1 .. Len(tail) : tail[i] = x[n - Len(tail) + i]
            /\ Len(tail) >= 2 =>
                  /\ current = x[n]
                  /\ Len(baseline) = b
                  /\ \A i \in 1 .. b : baseline[i] = x[n - 1 - b + i]
            /\ Len(tail) < 2 => NoOpinion

\* C16 witness: a z-score evaluation whose series is longer than window + 1
\* and whose dropped, baseline and current elements all differ
C16_Witness ==
    /\ EvaluatedBy("ZScoreDetectorImpl")
    /\ cfg.on = "value"
    /\ cfg.window = 2
    /\ PassedLengthGuard
    /\ Len(ctx.series) = 4
    /\ ctx.series[1] # ctx.series[2]
    /\ ctx.series[3] # ctx.series[4]
    /\ TailOf(cfg, Analysed) = <<ctx.series[2], ctx.series[3], ctx.series[4]>>

\* C17: the transform of a series of length n gives the n elements for
\* 'value', the n-1 successive differences for 'delta', and for 'pct_delta'
\* the n-1 quotients (series[i] - series[i-1]) / denom with denom the prior
\* value, or 1e-12 when the prior value is 0; no denominator is zero and the
\* evaluation returns.
C17_TransformOutput ==
    EvaluatedBy("ThresholdDetectorImpl") =>
        LET s == ctx.series
            n == Len(s)
            t == ThresholdTransform(cfg, s)
        IN  /\ outcome.kind = "return"
            /\ cfg.on = "value" =>
                  /\ Len(t) = n
                  /\ \A i \in 1 .. n : t[i] = IntNum(s[i])
            /\ cfg.on = "delta" =>
                  /\ Len(t) = Max(n - 1, 0)
                  /\ \A i \in 1 .. (n - 1) : t[i] = IntNum(s[i + 1] - s[i])
            /\ cfg.on = "pct_delta" =>
                  /\ Len(t) = Max(n - 1, 0)
                  /\ \A i \in 1 .. (n - 1) :
                        /\ t[i].den > 0
                        /\ s[i] # 0 =>
                              /\ t[i].e = 0
                              /\ t[i].num * s[i] = (s[i + 1] - s[i]) * t[i].den
                        /\ s[i] = 0 =>
                              /\ t[i].num = (s[i + 1] - s[i]) * t[i].den
                              /\ t[i].num # 0 => t[i].e = 1

\* C17 witness: a pct_delta evaluation over a prior value of 0 followed by a
\* non-zero one
C17_Witness ==
    /\ EvaluatedBy("ThresholdDetectorImpl")
    /\ cfg.on = "pct_delta"
    /\ Len(ctx.series) >= 3
    /\ ctx.series[1] = 0
    /\ ctx.series[2] # 0
    /\ ctx.series[3] # ctx.series[2]
    /\ outcome.kind = "return"

\* C18: with a baseline of equal elements or of one element (sigma = 0) and
\* two_tailed true, ZScore returns the score (current - mu) / 1e-12 and
\* reports a breach when current differs from the baseline, and when current
\* equals the baseline a breach only for z_threshold = 0.
C18_DegenerateBaseline ==
    (EvaluatedBy("ZScoreDetectorImpl") /\ SufficientZScore
        /\ CurrentZ.V = 0 /\ cfg.two_tailed) =>
        /\ outcome.kind = "return"
        /\ outcome.value = Some(CurrentZ)
        /\ outcome.breaches # <<>> <=> (CurrentZ.D # 0 \/ cfg.z_threshold = 0)

\* C19: every ZScore or MAD evaluation that computes a score returns it as
\* the value, with one breach when the rule fires and none otherwise.
C19_AtMostOneBreach ==
    /\ (EvaluatedBy("ZScoreDetectorImpl") /\ SufficientZScore) =>
          /\ outcome.kind = "return"
          /\ outcome.value = Some(CurrentZ)
          /\ Len(outcome.breaches) <= 1
          /\ Len(outcome.breaches) = 1 <=> ZScoreBreaches(ctx, cfg, CurrentZ) # <<>>
    /\ (EvaluatedBy("MADDetectorImpl") /\ SufficientMAD) =>
          /\ outcome.kind = "return"
          /\ outcome.value = Some(CurrentRobust)
          /\ Len(outcome.breaches) <= 1
          /\ Len(outcome.breaches) = 1 <=> MADBreaches(ctx, cfg, CurrentRobust) # <<>>

\* two series end alike for a transform: in the same element for 'value', in
\* the same last two elements for 'delta' and 'pct_delta'
SameEnding(s1, s2, on) ==
    LET k == IF on = "value" THEN 1 ELSE 2
    IN  /\ Len(s1) >= k
        /\ Len(s2) >= k
        /\ LastK(s1, k) = LastK(s2, k)

\* C20: under the same config, Threshold gives the same value and breaches
\* for every two non-empty series that end in the same element (on = value)
\* or the same last two elements (on = delta or pct_delta).
C20_ThresholdDependsOnEndingOnly ==
    (EvaluatedBy("ThresholdDetectorImpl")
        /\ cfg.on \in {"value", "delta", "pct_delta"}) =>
        \A s2 \in AllSeries :
            SameEnding(ctx.series, s2, cfg.on) =>
                LET other == ThresholdEvaluate(DetectorContext(s2, ctx.label), cfg)
                IN  /\ other.kind = outcome.kind
                    /\ other.value = outcome.value
                    /\ other.breaches = outcome.breaches

\* C20 witness: a pct_delta evaluation with a breach on a series of four
\* points whose first element differs from its third
C20_Witness ==
    /\ EvaluatedBy("ThresholdDetectorImpl")
    /\ cfg.on = "pct_delta"
    /\ Len(ctx.series) = 4
    /\ ctx.series[1] # ctx.series[3]
    /\ outcome.breaches # <<>>
    /\ \E s2 \in AllSeries :
          /\ Len(s2) = 2
          /\ SameEnding(ctx.series, s2, cfg.on)

\* C21: in every result a detector returns, a non-empty breaches list comes
\* with a value that is not None; value=None always comes with no breach.
C21_NoBreachWithoutScore ==
    (call.op = "evaluate" /\ outcome.kind = "return") =>
        /\ outcome.breaches # <<>> => outcome.value # None
        /\ outcome.value = None => outcome.breaches = <<>>

\* C21 witness: a returned result with a breach and a value, from a series
\* whose delta exists
C21_Witness ==
    /\ EvaluatedBy("ThresholdDetectorImpl")
    /\ cfg.on = "delta"
    /\ outcome.kind = "return"
    /\ outcome.breaches # <<>>
    /\ outcome.value # None

\* the series of the length of s that agree with s on its last k elements
\* (on all of s when s has no more than k)
OlderVariants(s, k) ==
    IF Len(s) <= k THEN {s}
    ELSE {p \o LastK(s, k) : p \in [1 .. (Len(s) - k) -> SeriesValues]}

\* the scores ZScore and MAD compute for series s under the current config
ZScoreFor(s) ==
    LET tail == TailOf(cfg, ZScoreTransform(cfg, s))
    IN  ZScoreOf(tail[Len(tail)], AllButLast(tail))

RobustFor(s) ==
    LET tail == TailOf(cfg, MADTransform(cfg, s))
    IN  RobustOf(tail[Len(tail)], AllButLast(tail))

\* the elements of the series the window reaches back to
Reach == IF cfg.on = "delta" THEN cfg.window + 2 ELSE cfg.window + 1

\* C22: for window > 0, ZScore and MAD give the same score and the same
\* outcome for every two series of one length that pass the length guard and
\* agree on their last window+1 (on = value) or window+2 (on = delta)
\* elements.
C22_OlderObservationsDoNotInfluence ==
    (call.op = "evaluate" /\ cfg.type \in {"zscore", "mad"}
        /\ cfg.on \in {"value", "delta"} /\ cfg.window > 0
        /\ (IF cfg.type = "zscore" THEN SufficientZScore ELSE SufficientMAD)) =>
        \A s2 \in OlderVariants(ctx.series, Reach) :
            /\ cfg.type = "zscore" => ZScoreFor(s2) = ZScoreFor(ctx.series)
            /\ cfg.type = "mad" => RobustFor(s2) = RobustFor(ctx.series)
            /\ EvaluateBy(call.detector, DetectorContext(s2, ctx.label), cfg) = outcome

\* C22 witness: a z-score evaluation on four points with window 1, where
\* another series with different older points has the same last two
C22_Witness ==
    /\ EvaluatedBy("ZScoreDetectorImpl")
    /\ cfg.on = "value"
    /\ cfg.window = 1
    /\ SufficientZScore
    /\ Len(ctx.series) = 4
    /\ ctx.series[3] # ctx.series[4]
    /\ \E s2 \in OlderVariants(ctx.series, Reach) :
          /\ s2[1] # ctx.series[1]
          /\ s2[2] # ctx.series[2]
          /\ ZScoreFor(s2) = ZScoreFor(ctx.series)

====
